---- MODULE Spec2Model ----
(***************************************************************************)
(* A model of script.py of anastygnome/dpll-solver: the CNF loader         *)
(* (parse_file / read_clause), the two simplification rules                *)
(* (remove_unit_clauses, pure_literal) and the recursive DPLL search,      *)
(* with the call stack of the recursion made explicit.                     *)
(*                                                                         *)
(* Python objects that are mutated in place keep their identity: the       *)
(* single `model` dict is one variable shared by every frame, and the      *)
(* clause sets live in `heap`, frames holding indices into it.  The        *)
(* iteration order of a Python set is a nondeterministic choice.           *)
(***************************************************************************)
EXTENDS Integers, Sequences, FiniteSets, TLC

\* ------------------------------------------------------------------------
\* Bounds of the search model.
NumVars == 2
MaxClauses == 4
MaxClauseLen == 2

Vars == 1..NumVars
Lits == {l \in (0 - NumVars)..NumVars : l # 0}

\* abs() of Python.
abs(l) == IF l < 0 THEN 0 - l ELSE l

\* A fixed order on literals, used only to enumerate each clause once:
\* 1, -1, 2, -2, ...
Rank(l) == 2 * abs(l) - (IF l > 0 THEN 1 ELSE 0)

\* The clauses the search is started on: tuples of literals, as parse_file
\* builds them, of length 0..MaxClauseLen, without a repeated literal and
\* written in increasing Rank order.
ClausesOfLen(n) ==
    {c \in [1..n -> Lits] : \A i \in 1..(n - 1) : Rank(c[i]) < Rank(c[i + 1])}

Clauses == UNION {ClausesOfLen(n) : n \in 0..MaxClauseLen}

\* The clauses in one fixed order, so that each formula is drawn once.
RECURSIVE SeqOfSet(_)
SeqOfSet(S) ==
    IF S = {} THEN <<>>
    ELSE LET c == CHOOSE x \in S : TRUE
         IN  <<c>> \o SeqOfSet(S \ {c})

ClauseSeq == SeqOfSet(Clauses)

RECURSIVE Pow(_, _)
Pow(b, e) == IF e = 0 THEN 1 ELSE b * Pow(b, e - 1)

\* The occurrences of variable v in clause c as one number: a digit (base
\* MaxClauses + 1) per sign and clause length, so that the sum over a formula
\* counts v's occurrences of each sign in the clauses of each length.
Occurrence(c, v) ==
    (IF \E i \in DOMAIN c : c[i] = v
        THEN Pow(MaxClauses + 1, 2 * (Len(c) - 1)) ELSE 0)
    + (IF \E i \in DOMAIN c : c[i] = 0 - v
        THEN Pow(MaxClauses + 1, 2 * Len(c) - 1) ELSE 0)

OccurrenceTable == [i \in DOMAIN ClauseSeq |-> [v \in Vars |-> Occurrence(ClauseSeq[i], v)]]

NoOccurrence == [v \in Vars |-> 0]

\* Renaming the variables of a formula changes nothing the code does but the
\* names, so the formulas are drawn up to renaming: variable ids are given
\* in the order of decreasing occurrence numbers.
Numbered(w) == \A v \in 1..(NumVars - 1) : w[v] >= w[v + 1]

\* ------------------------------------------------------------------------
\* The model dict: a function from the assigned variable ids to BOOLEAN.
EmptyModel == [v \in {} |-> TRUE]

\* model[v] = b
Assign(m, v, b) == [x \in (DOMAIN m) \cup {v} |-> IF x = v THEN b ELSE m[x]]

\* The test of DPLL's satisfaction check for one literal:
\*   litteral in model and model[litteral]
\*     or -litteral in model and not model[-litteral]
LitTrue(m, l) ==
    \/ (l \in DOMAIN m /\ m[l])
    \/ ((0 - l) \in DOMAIN m /\ ~m[0 - l])

\* any(... for litteral in c)
ClauseSatisfied(m, c) == \E i \in DOMAIN c : LitTrue(m, c[i])

\* all(any(...) for c in clauses)
AllSatisfied(m, cs) == \A c \in cs : ClauseSatisfied(m, c)

\* ------------------------------------------------------------------------
\* remove_unit_clauses.  The scan of one clause keeps the first literal whose
\* variable is not in the model and breaks at a second one: the clause is a
\* unit clause when exactly one position holds an unassigned variable.
Unassigned(m, c) == {i \in DOMAIN c : abs(c[i]) \notin DOMAIN m}

IsUnit(m, c) == Cardinality(Unassigned(m, c)) = 1

UnitLiteral(m, c) == c[CHOOSE i \in Unassigned(m, c) : TRUE]

\* The clauses remove_unit_clauses may stop at: it returns at the first unit
\* clause of the iteration order, which may be any of them.
UnitClauses(m, cs) == {c \in cs : IsUnit(m, c)}

\* An assignment of the value that makes the unit literal false, to show that
\* the effect property depends on the value written.
UnitAssignNegated(m, c) == Assign(m, abs(UnitLiteral(m, c)), UnitLiteral(m, c) < 0)

\* model[abs(unit_literal)] = unit_literal > 0
UnitAssign(m, c) == Assign(m, abs(UnitLiteral(m, c)), UnitLiteral(m, c) > 0)

\* clauses.remove(clause)
UnitRemove(cs, c) == cs \ {c}

\* ------------------------------------------------------------------------
\* pure_literal.
VarsOf(cs) == UNION {{abs(c[i]) : i \in DOMAIN c} : c \in cs}

OccursPos(cs, v) == \E c \in cs : \E i \in DOMAIN c : c[i] = v
OccursNeg(cs, v) == \E c \in cs : \E i \in DOMAIN c : c[i] = 0 - v

\* `not symbols`: None or the empty set.
NotSymbols(established, symbols) == ~established \/ symbols = {}

\* The set the scan starts from: symbols.copy(), or every variable met.
PureBase(cs, established, symbols) ==
    IF NotSymbols(established, symbols) THEN VarsOf(cs) ELSE symbols

\* pure_literals after the scan: what is left once every variable met with
\* both signs has been discarded.
PureLiterals(cs, established, symbols) ==
    {v \in PureBase(cs, established, symbols) :
        ~(OccursPos(cs, v) /\ OccursNeg(cs, v))}

\* The keys of the polarity dict.
PolarityKeys(cs) == VarsOf(cs)

\* A pure_literal that records the opposite sign, to show that the
\* pure-literal property depends on the sign recorded.
PolarityInverted(cs, v) == ~OccursPos(cs, v)

\* polarity[v] for a variable left in pure_literals (it has one sign only).
Polarity(cs, v) == OccursPos(cs, v)

\* new_symb -= pure_literals
NewSymb(cs, established, symbols) ==
    PureBase(cs, established, symbols) \ PureLiterals(cs, established, symbols)

\* for lit in pure_literals: model[lit] = polarity[lit], over the set P.
RECURSIVE AssignPure(_, _, _)
AssignPure(m, cs, P) ==
    IF P = {} THEN m
    ELSE LET v == CHOOSE x \in P : TRUE
         IN  AssignPure(Assign(m, v, Polarity(cs, v)), cs, P \ {v})

\* The clauses returned: those without a variable of pure_literals.
PureFilter(cs, P) == {c \in cs : ~(\E i \in DOMAIN c : abs(c[i]) \in P)}

\* The lookup polarity[lit] raises KeyError for a variable of pure_literals
\* that no clause mentions.
PureKeyError(cs, established, symbols) ==
    PureLiterals(cs, established, symbols) \ PolarityKeys(cs) # {}

\* ------------------------------------------------------------------------
\* parse_file and read_clause.  Text is a sequence of one-character strings.

\* Bounds of the loader model: the items (tokens and line breaks) of the
\* text after the header line, and the clause count the header declares.
MaxItems == 5
MaxDeclared == 2

NewLine == <<"\n">>

\* The tokens the text is written with: a literal, the terminator, a literal
\* whose last digit is 0, a negative literal.
Tokens == {<<"1">>, <<"0">>, <<"1", "0">>, <<"-", "2">>}

Items == Tokens \cup {NewLine}

\* The text of a sequence of items: a blank between two tokens that follow
\* each other on a line.
RECURSIVE TextOf(_)
TextOf(items) ==
    IF items = <<>> THEN <<>>
    ELSE IF Len(items) > 1 /\ items[1] # NewLine /\ items[2] # NewLine
         THEN items[1] \o <<" ">> \o TextOf(Tail(items))
         ELSE items[1] \o TextOf(Tail(items))

\* The lines `for line in file` yields: each up to and with its line break,
\* and what follows the last line break, if anything.
RECURSIVE LinesFrom(_, _)
LinesFrom(text, line) ==
    IF text = <<>> THEN (IF line = <<>> THEN <<>> ELSE <<line>>)
    ELSE IF text[1] = "\n" THEN <<Append(line, "\n")>> \o LinesFrom(Tail(text), <<>>)
    ELSE LinesFrom(Tail(text), Append(line, text[1]))

LinesOf(items) == LinesFrom(TextOf(items), <<>>)

\* str.strip(): leading and trailing whitespace removed.
IsSpace(ch) == ch \in {" ", "\n"}

RECURSIVE LStrip(_)
LStrip(t) == IF t # <<>> /\ IsSpace(t[1]) THEN LStrip(Tail(t)) ELSE t

RECURSIVE RStrip(_)
RStrip(t) ==
    IF t # <<>> /\ IsSpace(t[Len(t)]) THEN RStrip(SubSeq(t, 1, Len(t) - 1)) ELSE t

Strip(t) == RStrip(LStrip(t))

\* line.strip().endswith("0")
EndsWithZero(t) == t # <<>> /\ t[Len(t)] = "0"

\* buffer.rstrip("0"): every trailing character 0 removed.
RECURSIVE RStripZeros(_)
RStripZeros(t) ==
    IF t # <<>> /\ t[Len(t)] = "0" THEN RStripZeros(SubSeq(t, 1, Len(t) - 1)) ELSE t

\* str.split(): the maximal runs of non-whitespace characters.
RECURSIVE SplitFrom(_, _)
SplitFrom(t, tok) ==
    IF t = <<>> THEN (IF tok = <<>> THEN <<>> ELSE <<tok>>)
    ELSE IF IsSpace(t[1])
         THEN (IF tok = <<>> THEN <<>> ELSE <<tok>>) \o SplitFrom(Tail(t), <<>>)
         ELSE SplitFrom(Tail(t), Append(tok, t[1]))

Split(t) == SplitFrom(t, <<>>)

\* int() of a token: an optional sign, then decimal digits.
DigitValue(ch) ==
    CASE ch = "0" -> 0 [] ch = "1" -> 1 [] ch = "2" -> 2 [] ch = "3" -> 3
      [] ch = "4" -> 4 [] ch = "5" -> 5 [] ch = "6" -> 6 [] ch = "7" -> 7
      [] ch = "8" -> 8 [] ch = "9" -> 9

RECURSIVE DigitsValue(_, _)
DigitsValue(t, acc) ==
    IF t = <<>> THEN acc ELSE DigitsValue(Tail(t), 10 * acc + DigitValue(t[1]))

ParseInt(tok) ==
    IF tok[1] = "-" THEN 0 - DigitsValue(Tail(tok), 0) ELSE DigitsValue(tok, 0)

\* tuple(map(int, buffer.rstrip("0").split()))
CurrentClause(buf) ==
    LET toks == Split(RStripZeros(buf))
    IN  [i \in 1..Len(toks) |-> ParseInt(toks[i])]

\* any(abs(literal) > nb_lit for literal in current_clause)
InvalidClause(clause, maxVar) == \E i \in DOMAIN clause : abs(clause[i]) > maxVar

\* ------------------------------------------------------------------------
\* The search state.
\*   formula  the formula as it was loaded, before the top-level call
\*   heap     the clause-set objects; heap[1] is the set main passes to DPLL
\*   model    the one dict every call of DPLL shares
\*   stack    the frames of DPLL, innermost last
\*   ret      the value the last finished call returned, "pending" while the
\*            innermost call is still running
\*   run      the number of the current top-level run
\*   first    the value the first run returned, "pending" before that
VARIABLES formula, heap, model, stack, ret, run, first

\* The loader state.
\*   file        the lines of the source after the header line
\*   nb_clauses  the clause count the header declares
\*   nb_lit      the largest variable id the header allows
\*   lineno      the next line the file iterator yields
\*   buffer      read_clause's buffer
\*   cnf         the clauses collected so far
\*   warned      the truncation warning has been printed
\*   lpc         "reading", then "returned" or "raised" ("idle": no load)
VARIABLES file, nb_clauses, nb_lit, lineno, buffer, cnf, warned, lpc

\* The state of a direct call of remove_unit_clauses(clauses, model).
\*   uclauses  the clause set object passed as `clauses`
\*   umodel    the dict passed as `model`
\*   uresult   what the last call returned: "True" or "False" ("none": no call)
\*   ucalls    the calls made so far
VARIABLES uclauses, umodel, uresult, ucalls

searchVars == <<formula, heap, model, stack, ret, run, first>>

loaderVars == <<file, nb_clauses, nb_lit, lineno, buffer, cnf, warned, lpc>>

callVars == <<uclauses, umodel, uresult, ucalls>>

vars == <<searchVars, loaderVars, callVars>>

\* No file is being loaded.
LoaderIdle ==
    /\ file = <<>>
    /\ nb_clauses = 0
    /\ nb_lit = 0
    /\ lineno = 1
    /\ buffer = <<>>
    /\ cnf = {}
    /\ warned = FALSE
    /\ lpc = "idle"

\* remove_unit_clauses is not being called directly.
CallIdle ==
    /\ uclauses = {}
    /\ umodel = EmptyModel
    /\ uresult = "none"
    /\ ucalls = 0

\* formula is F extended by at most k clauses out of ClauseSeq[lo..], where w
\* sums the occurrence numbers of F: the formulas of at most MaxClauses
\* distinct clauses.
RECURSIVE Loaded(_, _, _, _)
Loaded(k, lo, F, w) ==
    \/ Numbered(w) /\ formula = F
    \/ /\ k > 0
       /\ \E i \in lo..Len(ClauseSeq) :
             Loaded(k - 1, i + 1, F \cup {ClauseSeq[i]},
                    [v \in Vars |-> w[v] + OccurrenceTable[i][v]])

\* The deepest recursion the code can reach: every nested call has one clause
\* less or one more variable assigned than its caller had on entry.
MaxDepth == MaxClauses + NumVars + 1

\* A frame of DPLL(clauses, symbols, model) about to run its first line.
\* (established = FALSE stands for symbols = None.)
Frame(c, est, sym) ==
    [clauses |-> c, established |-> est, symbols |-> sym, s |-> 0, at |-> "entry"]

\* result = DPLL(cnf), with the default arguments symbols=None, model={}.
Init ==
    /\ Loaded(MaxClauses, 1, {}, NoOccurrence)
    /\ heap = <<formula>>
    /\ model = EmptyModel
    /\ stack = <<Frame(1, FALSE, {})>>
    /\ ret = "pending"
    /\ run = 1
    /\ first = "pending"
    /\ LoaderIdle
    /\ CallIdle

Top == stack[Len(stack)]

Cs == heap[Top.clauses]

AtEntry == stack # <<>> /\ Top.at = "entry"

Pop == SubSeq(stack, 1, Len(stack) - 1)

\* The frame returns v to its caller.
Return(v) == ret' = v /\ stack' = Pop

\* if model and all(any(...) for c in clauses)
Satisfied == DOMAIN model # {} /\ AllSatisfied(model, Cs)

\* elif symbols is not None and len(model) == len(symbols)
Exhausted ==
    Top.established /\ Cardinality(DOMAIN model) = Cardinality(Top.symbols)

\* Python's truth value of what DPLL returns: a tuple is true, None is false.
Truthy(r) == r \in {"TrueNone", "TrueModel", "FalseModel"}

\* if not clauses: return (True, None)
ReturnEmpty ==
    /\ AtEntry
    /\ Cs = {}
    /\ Return("TrueNone")
    /\ UNCHANGED <<callVars, loaderVars, formula, heap, model, run, first>>

\* return (True, model)
ReturnSatisfied ==
    /\ AtEntry
    /\ Cs # {}
    /\ Satisfied
    /\ Return("TrueModel")
    /\ UNCHANGED <<callVars, loaderVars, formula, heap, model, run, first>>

\* return (False, model)
ReturnExhausted ==
    /\ AtEntry
    /\ Cs # {}
    /\ ~Satisfied
    /\ Exhausted
    /\ Return("FalseModel")
    /\ UNCHANGED <<callVars, loaderVars, formula, heap, model, run, first>>

\* The lines after the three tests are reached.
PastTests == AtEntry /\ Cs # {} /\ ~Satisfied /\ ~Exhausted

\* if remove_unit_clauses(clauses, model): return DPLL(clauses, symbols, model)
UnitStep ==
    /\ PastTests
    /\ Len(stack) < MaxDepth
    /\ \E c \in UnitClauses(model, Cs) :
          /\ model' = UnitAssign(model, c)
          /\ heap' = [heap EXCEPT ![Top.clauses] = UnitRemove(Cs, c)]
    /\ stack' = Append([stack EXCEPT ![Len(stack)].at = "unit"],
                       Frame(Top.clauses, Top.established, Top.symbols))
    /\ UNCHANGED <<callVars, loaderVars, formula, ret, run, first>>

\* remove_unit_clauses returned False: pure_literal is called.
AtPure == PastTests /\ UnitClauses(model, Cs) = {}

\* pure_literal raises KeyError, after it has assigned some of the pure
\* literals (in the order of the set); nothing catches the exception.
PureRaise ==
    /\ AtPure
    /\ PureKeyError(Cs, Top.established, Top.symbols)
    /\ \E P \in SUBSET (PureLiterals(Cs, Top.established, Top.symbols)
                          \cap PolarityKeys(Cs)) :
          model' = AssignPure(model, Cs, P)
    /\ ret' = "KeyError"
    /\ stack' = <<>>
    /\ UNCHANGED <<callVars, loaderVars, formula, heap, run, first>>

PureModel == AssignPure(model, Cs, PureLiterals(Cs, Top.established, Top.symbols))

PureClauses == PureFilter(Cs, PureLiterals(Cs, Top.established, Top.symbols))

PureSymbols == NewSymb(Cs, Top.established, Top.symbols)

\* A branching loop over every symbol, assigned or not, to show that the
\* termination argument depends on the subtraction of model.keys().
BranchCandidatesAll(symbols, m) == symbols

\* symbols - model.keys()
BranchCandidates(symbols, m) == symbols \ DOMAIN m

\* clauses, symbols = pure_literal(...); if not clauses: return (True, model)
PureSat ==
    /\ AtPure
    /\ ~PureKeyError(Cs, Top.established, Top.symbols)
    /\ PureClauses = {}
    /\ model' = PureModel
    /\ Return("TrueModel")
    /\ UNCHANGED <<callVars, loaderVars, formula, heap, run, first>>

\* The for loop has nothing to iterate over: DPLL falls off its end and
\* returns None.
PureNoSymbol ==
    /\ AtPure
    /\ ~PureKeyError(Cs, Top.established, Top.symbols)
    /\ PureClauses # {}
    /\ BranchCandidates(PureSymbols, PureModel) = {}
    /\ model' = PureModel
    /\ Return("None")
    /\ UNCHANGED <<callVars, loaderVars, formula, heap, run, first>>

\* for s in symbols - model.keys(): model[s] = True; result = DPLL(...)
BranchTrue ==
    /\ AtPure
    /\ ~PureKeyError(Cs, Top.established, Top.symbols)
    /\ PureClauses # {}
    /\ Len(stack) < MaxDepth
    /\ \E s \in BranchCandidates(PureSymbols, PureModel) :
          /\ model' = Assign(PureModel, s, TRUE)
          /\ stack' = Append(
                [stack EXCEPT ![Len(stack)] =
                    [clauses |-> Len(heap) + 1, established |-> TRUE,
                     symbols |-> PureSymbols, s |-> s, at |-> "true"]],
                Frame(Len(heap) + 1, TRUE, PureSymbols))
    /\ heap' = Append(heap, PureClauses)
    /\ UNCHANGED <<callVars, loaderVars, formula, ret, run, first>>

Returned == stack # <<>> /\ Top.at # "entry" /\ ret # "pending"

\* if result: return (True, model)
BranchSat ==
    /\ Returned
    /\ Top.at = "true"
    /\ Truthy(ret)
    /\ Return("TrueModel")
    /\ UNCHANGED <<callVars, loaderVars, formula, heap, model, run, first>>

\* model[s] = False; return DPLL(clauses, symbols, model)
BranchFalse ==
    /\ Returned
    /\ Top.at = "true"
    /\ ~Truthy(ret)
    /\ Len(stack) < MaxDepth
    /\ model' = Assign(model, Top.s, FALSE)
    /\ stack' = Append([stack EXCEPT ![Len(stack)].at = "false"],
                       Frame(Top.clauses, TRUE, Top.symbols))
    /\ ret' = "pending"
    /\ UNCHANGED <<callVars, loaderVars, formula, heap, run, first>>

\* return DPLL(...): the callee's value is the caller's.
TailReturn ==
    /\ Returned
    /\ Top.at \in {"unit", "false"}
    /\ Return(ret)
    /\ UNCHANGED <<callVars, loaderVars, formula, heap, model, run, first>>

\* One step of a run of DPLL.
Step ==
    \/ ReturnEmpty
    \/ ReturnSatisfied
    \/ ReturnExhausted
    \/ UnitStep
    \/ PureRaise
    \/ PureSat
    \/ PureNoSymbol
    \/ BranchTrue
    \/ BranchSat
    \/ BranchFalse
    \/ TailReturn

Next == Step

\* One top-level call DPLL(cnf) on a freshly loaded formula.
Spec == Init /\ [][Next]_vars

\* The top-level call has returned (or raised).
Done == stack = <<>>

\* The program is run a second time on the same file: a new process, so the
\* formula is loaded again and the default model is empty again.  Only the
\* iteration orders of the sets may differ from the first run.
Rerun ==
    /\ Done
    /\ run = 1
    /\ run' = 2
    /\ first' = ret
    /\ heap' = <<formula>>
    /\ model' = EmptyModel
    /\ stack' = <<Frame(1, FALSE, {})>>
    /\ ret' = "pending"
    /\ UNCHANGED <<formula, loaderVars, callVars>>

NextRuns == Step \/ Rerun

\* Two runs of the program on one formula.
SpecRuns == Init /\ [][NextRuns]_vars

\* DPLL is called at top level a second time in the same process, on the
\* formula loaded again, without a model argument: the default argument is
\* the one dict object created when `def DPLL` was executed, so the callee's
\* model is whatever the first call left in it.
CallAgain ==
    /\ Done
    /\ run = 1
    /\ ret # "KeyError"
    /\ run' = 2
    /\ first' = ret
    /\ heap' = <<formula>>
    /\ stack' = <<Frame(1, FALSE, {})>>
    /\ ret' = "pending"
    /\ UNCHANGED <<formula, model, loaderVars, callVars>>

NextCalls == Step \/ CallAgain

\* Two top-level calls of DPLL in one process.
SpecCalls == Init /\ [][NextCalls]_vars

\* The search on formulas of fewer clauses over one variable more.
MaxWideClauses == 3

WideLits == {l \in (0 - (NumVars + 1))..(NumVars + 1) : l # 0}

WideClauses ==
    UNION {{c \in [1..n -> WideLits] :
               \A i \in 1..(n - 1) : Rank(c[i]) < Rank(c[i + 1])} :
           n \in 0..MaxClauseLen}

WideClauseSeq == SeqOfSet(WideClauses)

\* formula is F extended by at most k clauses out of WideClauseSeq[lo..].
RECURSIVE LoadedWide(_, _, _)
LoadedWide(k, lo, F) ==
    \/ formula = F
    \/ /\ k > 0
       /\ \E i \in lo..Len(WideClauseSeq) :
             LoadedWide(k - 1, i + 1, F \cup {WideClauseSeq[i]})

\* result = DPLL(cnf), with the default arguments symbols=None, model={}.
InitWide ==
    /\ LoadedWide(MaxWideClauses, 1, {})
    /\ heap = <<formula>>
    /\ model = EmptyModel
    /\ stack = <<Frame(1, FALSE, {})>>
    /\ ret = "pending"
    /\ run = 1
    /\ first = "pending"
    /\ LoaderIdle
    /\ CallIdle

SpecWide == InitWide /\ [][Next]_vars

\* if result: print("Satisfiable with model: ...") else: print("Unsatisfiable")
Report(r) == IF Truthy(r) THEN "Satisfiable" ELSE "Unsatisfiable"

\* ------------------------------------------------------------------------
\* The loader as a state machine: one step per line read_clause takes from
\* the file.

\* The text after the header line.
Files == UNION {{LinesOf(items) : items \in [1..n -> Items]} : n \in 0..MaxItems}

\* No search is running.
SearchIdle ==
    /\ formula = {}
    /\ heap = <<{}>>
    /\ model = EmptyModel
    /\ stack = <<>>
    /\ ret = "pending"
    /\ run = 1
    /\ first = "pending"

\* parse_file(filename) has read the header line.
LoaderInit ==
    /\ file \in Files
    /\ nb_clauses \in 0..MaxDeclared
    /\ nb_lit \in 1..NumVars
    /\ lineno = 1
    /\ buffer = <<>>
    /\ cnf = {}
    /\ warned = FALSE
    /\ lpc = "reading"
    /\ SearchIdle
    /\ CallIdle

HasLine == lpc = "reading" /\ lineno <= Len(file)

Stripped == Strip(file[lineno])

\* if not line.strip(): continue
SkipBlank ==
    /\ HasLine
    /\ Stripped = <<>>
    /\ lineno' = lineno + 1
    /\ UNCHANGED <<callVars, searchVars, file, nb_clauses, nb_lit, buffer, cnf, warned, lpc>>

\* buffer += line.strip(); the line does not end with 0: buffer += " "
ContinueClause ==
    /\ HasLine
    /\ Stripped # <<>>
    /\ ~EndsWithZero(Stripped)
    /\ buffer' = buffer \o Stripped \o <<" ">>
    /\ lineno' = lineno + 1
    /\ UNCHANGED <<callVars, searchVars, file, nb_clauses, nb_lit, cnf, warned, lpc>>

\* The line ends with 0: the buffer is turned into a clause.
EndsClause == HasLine /\ Stripped # <<>> /\ EndsWithZero(Stripped)

\* raise ValueError("Invalid clause"): parse_file does not return.
RaiseInvalid ==
    /\ EndsClause
    /\ InvalidClause(CurrentClause(buffer \o Stripped), nb_lit)
    /\ lpc' = "raised"
    /\ UNCHANGED <<callVars, searchVars, file, nb_clauses, nb_lit, lineno, buffer, cnf, warned>>

\* A loader that never prints the warning, to show that the truncation
\* property depends on the test of len(cnf).
TruncatedNever(collected) == FALSE

\* if len(cnf) < nb_clauses: print("Warning, ...")
Truncated(collected) == Cardinality(collected) < nb_clauses

\* yield current_clause; cnf.add(clause); the loop goes on.
AddClause ==
    /\ EndsClause
    /\ ~InvalidClause(CurrentClause(buffer \o Stripped), nb_lit)
    /\ cnf' = cnf \cup {CurrentClause(buffer \o Stripped)}
    /\ ~(Cardinality(cnf') >= nb_clauses)
    /\ buffer' = <<>>
    /\ lineno' = lineno + 1
    /\ UNCHANGED <<callVars, searchVars, file, nb_clauses, nb_lit, warned, lpc>>

\* yield current_clause; cnf.add(clause); if len(cnf) >= nb_clauses: break;
\* return cnf, nb_clauses, nb_lit
AddLastClause ==
    /\ EndsClause
    /\ ~InvalidClause(CurrentClause(buffer \o Stripped), nb_lit)
    /\ cnf' = cnf \cup {CurrentClause(buffer \o Stripped)}
    /\ Cardinality(cnf') >= nb_clauses
    /\ warned' = Truncated(cnf')
    /\ lpc' = "returned"
    /\ UNCHANGED <<callVars, searchVars, file, nb_clauses, nb_lit, lineno, buffer>>

\* The file is exhausted: the loop ends; return cnf, nb_clauses, nb_lit
EndOfFile ==
    /\ lpc = "reading"
    /\ lineno > Len(file)
    /\ warned' = Truncated(cnf)
    /\ lpc' = "returned"
    /\ UNCHANGED <<callVars, searchVars, file, nb_clauses, nb_lit, lineno, buffer, cnf>>

LoaderNext ==
    \/ SkipBlank
    \/ ContinueClause
    \/ RaiseInvalid
    \/ AddClause
    \/ AddLastClause
    \/ EndOfFile

\* One call of parse_file.
LoaderSpec == LoaderInit /\ [][LoaderNext]_vars

\* ------------------------------------------------------------------------
\* remove_unit_clauses called directly, several times on the same two
\* objects.

\* Bounds of the direct calls: the clauses of the set passed, and the calls.
MaxCallClauses == 2
MaxCalls == 2

\* The dicts that can be passed as model.
Models == UNION {[D -> BOOLEAN] : D \in SUBSET Vars}

\* A pass that drops the clauses it skips (those without an unassigned
\* variable) although it finds no unit clause, to show that the properties
\* of remove_unit_clauses depend on what a pass writes.
RemoveUnitClausesDropSkipped(m, cs) ==
    {[result |-> "True", model |-> UnitAssign(m, c), clauses |-> UnitRemove(cs, c)] :
        c \in UnitClauses(m, cs)}
    \cup (IF UnitClauses(m, cs) = {}
             THEN {[result |-> "False", model |-> m,
                    clauses |-> {c \in cs : Unassigned(m, c) # {}}]}
             ELSE {})

\* What one call of remove_unit_clauses(cs, m) can do: at the first unit
\* clause of the iteration order (any of them), assign, remove, return True;
\* without a unit clause, write nothing and return False.
RemoveUnitClauses(m, cs) ==
    {[result |-> "True", model |-> UnitAssign(m, c), clauses |-> UnitRemove(cs, c)] :
        c \in UnitClauses(m, cs)}
    \cup (IF UnitClauses(m, cs) = {}
             THEN {[result |-> "False", model |-> m, clauses |-> cs]}
             ELSE {})

\* The objects of the first call: a clause set of at most MaxCallClauses
\* clauses (kept in formula as it was passed) and any model.
UnitInit ==
    /\ Loaded(MaxCallClauses, 1, {}, NoOccurrence)
    /\ uclauses = formula
    /\ umodel \in Models
    /\ uresult = "none"
    /\ ucalls = 0
    /\ heap = <<{}>>
    /\ model = EmptyModel
    /\ stack = <<>>
    /\ ret = "pending"
    /\ run = 1
    /\ first = "pending"
    /\ LoaderIdle

\* remove_unit_clauses(clauses, model) returns True.
UnitReturnsTrue ==
    /\ ucalls < MaxCalls
    /\ \E o \in RemoveUnitClauses(umodel, uclauses) :
          /\ o.result = "True"
          /\ uresult' = o.result
          /\ umodel' = o.model
          /\ uclauses' = o.clauses
    /\ ucalls' = ucalls + 1
    /\ UNCHANGED <<searchVars, loaderVars>>

\* remove_unit_clauses(clauses, model) returns False.
UnitReturnsFalse ==
    /\ ucalls < MaxCalls
    /\ \E o \in RemoveUnitClauses(umodel, uclauses) :
          /\ o.result = "False"
          /\ uresult' = o.result
          /\ umodel' = o.model
          /\ uclauses' = o.clauses
    /\ ucalls' = ucalls + 1
    /\ UNCHANGED <<searchVars, loaderVars>>

UnitNext == UnitReturnsTrue \/ UnitReturnsFalse

\* Calls of remove_unit_clauses, one after the other.
UnitSpec == UnitInit /\ [][UnitNext]_vars

\* ------------------------------------------------------------------------
\* What the claims speak of.

\* Literal l is made true by model m.
MakesTrue(m, l) == abs(l) \in DOMAIN m /\ (m[abs(l)] <=> l > 0)

\* Every clause of F has a literal m makes true.
Satisfies(m, F) == \A c \in F : \E i \in DOMAIN c : MakesTrue(m, c[i])

\* The satisfying total assignments of F's variables.
ModelsOf(F) == {a \in [VarsOf(F) -> BOOLEAN] : Satisfies(a, F)}

\* v occurs in F, and only positively.
OnlyPositive(F, v) == OccursPos(F, v) /\ ~OccursNeg(F, v)

\* The model the caller receives: the shared dict, or None (no assignment at
\* all) when DPLL returned (True, None).
ReturnedModel == IF ret = "TrueNone" THEN EmptyModel ELSE model

\* ------------------------------------------------------------------------
\* C1: whenever DPLL(cnf) returns (True, model), every clause of the formula
\* as it was before the call has a literal the model makes true.
Soundness == (Done /\ ret = "TrueModel") => Satisfies(model, formula)

\* ------------------------------------------------------------------------
\* C2: on a formula without a satisfying assignment the top-level call
\* returns a pair whose first component is false, and the caller's test of
\* the result reports "Unsatisfiable".
UnsatDetected ==
    (Done /\ ModelsOf(formula) = {})
        => (ret = "FalseModel" /\ Report(ret) = "Unsatisfiable")

\* ------------------------------------------------------------------------
\* C3: on a formula with exactly one satisfying total assignment, DPLL
\* reports satisfiable and the model it returns is that assignment, whatever
\* the iteration orders.
UniqueModelFound ==
    (Done /\ Cardinality(ModelsOf(formula)) = 1)
        => (ret \in {"TrueModel", "TrueNone"} /\ ReturnedModel \in ModelsOf(formula))

\* ------------------------------------------------------------------------
\* C4: a top-level call never ends in an error and never ends without a
\* result: what it returns is a (boolean, model) pair.
NoErrorOutcome == Done => ret \in {"TrueNone", "TrueModel", "FalseModel"}

\* ------------------------------------------------------------------------
\* C5: every execution of DPLL reaches the state in which the top-level call
\* has returned.  Stated as the two halves of a termination argument: every
\* step of the search lowers a natural number (Variant), and a step is
\* possible as long as the top-level call has not returned.

\* The steps a call entered with m = |clauses| + |unassigned variables| can
\* take at most, its own return included: T(m) = 2 * T(m - 1) + 3, T(0) = 1.
StepsBound(m) == 2^(m + 2) - 3

\* |clauses| + |unassigned variables| of a frame, as the state is now.
Measure(f) == Cardinality(heap[f.clauses]) + Cardinality(Vars \ DOMAIN model)

\* The steps a frame may still cause: a frame at its entry the whole call; a
\* frame waiting in `return DPLL(...)` its own return; a frame waiting for
\* the s = True branch the step that follows, then the s = False branch and
\* its own return.
Pending(f) ==
    IF f.at = "entry" THEN StepsBound(Measure(f))
    ELSE IF f.at = "true" THEN StepsBound(Measure(f)) + 2
    ELSE 1

RECURSIVE PendingFrom(_)
PendingFrom(i) ==
    IF i > Len(stack) THEN 0 ELSE Pending(stack[i]) + PendingFrom(i + 1)

Variant == PendingFrom(1)

\* A step is possible.  A frame at its entry returns at one of the three
\* tests; past them, remove_unit_clauses or pure_literal is followed by a
\* nested call (which needs room on the stack) or by a return or a raise.  A
\* frame whose callee has returned returns, or calls for the s = False branch.
CanStep ==
    \/ AtEntry /\ ~PastTests
    \/ PastTests /\ Len(stack) < MaxDepth
    \/ AtPure /\ \/ PureKeyError(Cs, Top.established, Top.symbols)
                 \/ PureClauses = {}
                 \/ BranchCandidates(PureSymbols, PureModel) = {}
    \/ Returned /\ (Top.at # "true" \/ Truthy(ret) \/ Len(stack) < MaxDepth)

\* CanStep is the enabling condition of Next.
GuardsEnable == CanStep <=> ENABLED Next

\* C5: every step lowers Variant, and a state in which the top-level call
\* has not returned has a step: every execution ends, returned.
Termination == [][Variant' < Variant]_vars /\ [](Done \/ CanStep)

\* A search that branched, went on to the s = False branch after the
\* s = True branch had returned None, and has returned.
TerminationWitness == Done /\ Len(heap) > 1 /\ ret = "None"

\* The same claim as a liveness property, under weak fairness of the steps
\* (the interpreter keeps running the one thread there is).
FairSpec == Spec /\ WF_vars(Next)

EventuallyDone == <>Done

\* ------------------------------------------------------------------------
\* C6: two runs on one formula that differ only in the iteration orders of
\* the clause set and of the symbol set end with the same yes/no report.
OrderIndependent == (run = 2 /\ Done) => Report(first) = Report(ret)

\* ------------------------------------------------------------------------
\* C11: every top-level invocation of DPLL that is not passed a model starts
\* with an empty model: nothing an earlier invocation assigned is visible.
CleanSlate == (Len(stack) = 1 /\ Top.at = "entry") => model = EmptyModel

\* ------------------------------------------------------------------------
\* C12: the clause set main passes to DPLL holds the loaded clauses when the
\* search has finished, and every clause set of the search is at all times a
\* subset of the loaded formula.
FormulaImmutable ==
    /\ Done => heap[1] = formula
    /\ \A i \in DOMAIN heap : heap[i] \subseteq formula

\* ------------------------------------------------------------------------
\* C13: a call of remove_unit_clauses that returns False has changed neither
\* the clauses nor the model, and the call that follows one that returned
\* False returns False as well.
UnitStable ==
    [][/\ uresult' = "False" => (uclauses' = uclauses /\ umodel' = umodel)
       /\ uresult = "False" => uresult' = "False"]_vars

\* Two calls on a non-empty clause set have both returned False.
UnitStableWitness ==
    ucalls = 2 /\ uresult = "False" /\ uclauses = formula /\ uclauses # {}

\* ------------------------------------------------------------------------
\* The source as the format describes it: whitespace-separated integer
\* tokens, a clause being the tokens up to a token 0.

RECURSIVE TokensFrom(_)
TokensFrom(k) ==
    IF k > Len(file) THEN <<>> ELSE Split(file[k]) \o TokensFrom(k + 1)

SourceTokens == TokensFrom(1)

RECURSIVE ClausesFrom(_, _)
ClausesFrom(toks, clause) ==
    IF toks = <<>> THEN <<>>
    ELSE IF toks[1] = <<"0">> THEN <<clause>> \o ClausesFrom(Tail(toks), <<>>)
    ELSE ClausesFrom(Tail(toks), Append(clause, ParseInt(toks[1])))

\* The terminated clauses of the source, in order.
SourceClauses == ClausesFrom(SourceTokens, <<>>)

\* Fewer than declaredCount distinct clauses come before the j-th one.
ReachedClause(j) ==
    Cardinality({SourceClauses[i] : i \in 1..(j - 1)}) < nb_clauses

ExceedsMaxVar(clause) == \E i \in DOMAIN clause : abs(clause[i]) > nb_lit

\* ------------------------------------------------------------------------
\* C7: whenever parse_file returns a formula, every literal l of every
\* clause in it satisfies 1 <= |l| <= maxVar; 0 is never a literal.
LoadedLiteralsInRange ==
    lpc = "returned" =>
        \A c \in cnf : \A i \in DOMAIN c : 1 <= abs(c[i]) /\ abs(c[i]) <= nb_lit

\* ------------------------------------------------------------------------
\* C8: if a clause the loader reaches before declaredCount distinct clauses
\* are collected has a literal whose absolute value exceeds maxVar,
\* parse_file fails and returns no formula.
BoundViolationFatal ==
    lpc = "returned" =>
        ~(\E j \in DOMAIN SourceClauses :
             ReachedClause(j) /\ ExceedsMaxVar(SourceClauses[j]))

\* ------------------------------------------------------------------------
\* C9: the formula parse_file returns never has more than declaredCount
\* clauses, and no clause is read once declaredCount distinct clauses have
\* been collected.
LoaderSizeBound ==
    /\ lpc = "returned" => Cardinality(cnf) <= nb_clauses
    /\ lpc = "reading" /\ cnf # {} => Cardinality(cnf) < nb_clauses

\* ------------------------------------------------------------------------
\* C14: a source that is one valid clause written twice, with declaredCount
\* = 2, is loaded without failure as a formula of one clause, with the
\* truncation warning; the warning is printed exactly when fewer clauses than
\* declared were collected; and parse_file fails only at a line that ends an
\* invalid clause, never for reaching the end of the source.

\* The source is one clause twice and nothing else.
SameClauseTwice ==
    /\ Len(SourceClauses) = 2
    /\ SourceClauses[1] = SourceClauses[2]
    /\ Len(SourceTokens) = 2 * (Len(SourceClauses[1]) + 1)
    /\ ~ExceedsMaxVar(SourceClauses[1])

BranchingPolicy ==
    [][(Returned /\ Top.at = "true") =>
          IF ret \in {"TrueModel", "TrueNone"}
          THEN Len(stack') = Len(stack) - 1 /\ ret' = "TrueModel"
          ELSE /\ Len(stack') = Len(stack) + 1
               /\ stack'[Len(stack)].at = "false"
               /\ model' = Assign(model, Top.s, FALSE)]_vars

\* ------------------------------------------------------------------------
\* C16: a step of the search leaves every variable that has a value in the
\* model with that value, except the branching step that flips its own
\* variable s from true to false.
AssignmentsFixed ==
    [][\A v \in DOMAIN model :
          /\ v \in DOMAIN model'
          /\ \/ model'[v] = model[v]
             \/ /\ Returned /\ Top.at = "true" /\ v = Top.s
                /\ model[v] /\ ~model'[v]]_vars

\* ------------------------------------------------------------------------
\* C17: whenever DPLL returns unsatisfiable through the size test, every
\* variable of the established symbol domain has a value in the model, and
\* some remaining clause is not satisfied by the model.
ExhaustionSound ==
    (AtEntry /\ Cs # {} /\ ~Satisfied /\ Exhausted)
        => (Top.symbols \subseteq DOMAIN model /\ ~Satisfies(model, Cs))

\* ------------------------------------------------------------------------
\* C18: a call of remove_unit_clauses that returns True has removed exactly
\* one clause, which had exactly one literal whose variable was not in the
\* model; the model has gained that variable, with the value that makes the
\* literal true; every other clause and model entry is as before; and no call
\* removes a clause whose literals are all assigned.

\* The positions of clause c whose variable has no value in m.
Absent(m, c) == {i \in DOMAIN c : abs(c[i]) \notin DOMAIN m}

UnitEffect ==
    [][/\ uresult' = "True" =>
             \E c \in uclauses :
                /\ uclauses' = uclauses \ {c}
                /\ Cardinality(Absent(umodel, c)) = 1
                /\ \A i \in Absent(umodel, c) :
                      /\ DOMAIN umodel' = DOMAIN umodel \cup {abs(c[i])}
                      /\ MakesTrue(umodel', c[i])
                /\ \A v \in DOMAIN umodel : umodel'[v] = umodel[v]
       /\ \A c \in uclauses : Absent(umodel, c) = {} => c \in uclauses']_vars

\* The first call has returned True: it has removed one clause and has left
\* where it was a clause whose variables all had a value before the call
\* (they have one now, and none of them is a variable of the removed clause).
UnitEffectWitness ==
    /\ uresult = "True"
    /\ ucalls = 1
    /\ \E r \in formula \ uclauses : \E c \in uclauses :
          /\ c # <<>>
          /\ Absent(umodel, c) = {}
          /\ VarsOf({c}) \cap VarsOf({r}) = {}

\* ------------------------------------------------------------------------
\* C19: whenever the search calls pure_literal, the call completes; the model
\* then maps every variable that occurs with a single polarity in the clause
\* set to that polarity; the clauses returned are exactly those without such
\* a variable; and the symbols returned hold none of these variables.

\* The variables that occur in cs with one polarity only.
SinglePolarity(cs) == {v \in VarsOf(cs) : ~(OccursPos(cs, v) /\ OccursNeg(cs, v))}

\* The clauses of cs without a variable of SinglePolarity(cs).
WithoutPure(cs) ==
    {c \in cs : \A i \in DOMAIN c : abs(c[i]) \notin SinglePolarity(cs)}

PureEffect ==
    [][AtPure =>
          /\ ret' # "KeyError"
          /\ \A v \in SinglePolarity(Cs) :
                v \in DOMAIN model' /\ (model'[v] <=> OccursPos(Cs, v))
          /\ ret' = "TrueModel" => WithoutPure(Cs) = {}
          /\ ret' = "None" => WithoutPure(Cs) # {}
          /\ Len(stack') > Len(stack) =>
                /\ heap'[stack'[Len(stack')].clauses] = WithoutPure(Cs)
                /\ stack'[Len(stack')].symbols \cap SinglePolarity(Cs) = {}]_vars

\* ------------------------------------------------------------------------
\* C20: read_clause ends a clause only at a line whose last token is exactly
\* 0; the clause is then every token collected but that last one, in order;
\* at any other line nothing is yielded and the tokens of the line are added
\* to those collected, none fused and no digit lost.

\* The last whitespace-delimited token of a non-blank line.
LastToken(line) == Split(line)[Len(Split(line))]

\* The literals of a token sequence without its last token.
LiteralsBeforeLast(toks) == [i \in 1..(Len(toks) - 1) |-> ParseInt(toks[i])]

TokenTermination ==
    [][(HasLine /\ Stripped # <<>>) =>
          IF LastToken(Stripped) = <<"0">>
          THEN \/ lpc' = "raised"
               \/ cnf' = cnf \cup {LiteralsBeforeLast(Split(buffer \o Stripped))}
          ELSE /\ cnf' = cnf
               /\ lpc' = "reading"
               /\ Split(buffer') = Split(buffer) \o Split(Stripped)]_vars

\* ------------------------------------------------------------------------
\* C10: when a variable v occurs only positively in the formula, every model
\* returned as satisfiable has v assigned true, and no clause containing v is
\* in the clause set handed to a branching step.

\* The clause sets handed to a branching step: those of the frames that
\* branched (and of the calls they made).
BranchingSets == {heap[stack[i].clauses] : i \in {j \in DOMAIN stack : stack[j].at \in {"true", "false"}}}

NotHandedToBranching(v) == \A cs \in BranchingSets : v \notin VarsOf(cs)

\* C10 as it is written: v is assigned true in every returned model.
PureAssignedTrue ==
    \A v \in Vars : OnlyPositive(formula, v) =>
        /\ (Done /\ ret = "TrueModel") => (v \in DOMAIN model /\ model[v])
        /\ NotHandedToBranching(v)

\* C10, with what the code guarantees for the model: v is never assigned
\* false; it is absent from the returned model when the search stopped
\* before pure_literal reached it.
PureNeverFalse ==
    \A v \in Vars : OnlyPositive(formula, v) =>
        /\ (Done /\ ret = "TrueModel") => (v \notin DOMAIN model \/ model[v])
        /\ NotHandedToBranching(v)

\* pure_literal assigned v true and removed its clauses before a branching
\* step, and the search returned satisfiable.
PureWitness ==
    \E v \in Vars :
        /\ OnlyPositive(formula, v)
        /\ Done /\ ret = "TrueModel"
        /\ Len(heap) > 1
        /\ v \in DOMAIN model /\ model[v]

====
